---- MODULE Spec2Model ----
(***************************************************************************)
(* A model of the ink-id sampling code: TrainVol (trainvol.py), Volume     *)
(* (inkid/data/Volume.py) and the cached feature extraction (features.py). *)
(* Arrays are functions over 0-based index tuples, as numpy indexes them.  *)
(***************************************************************************)
EXTENDS Integers, Sequences, FiniteSets, TLC

VARIABLES
    pc,               \* "new" before TrainVol.__init__ has run, "ready" after
    ctor_args,        \* the arguments of TrainVol.__init__ (arrays already loaded)
    self_args,        \* self.NR, self.C_IN, self.C_BACK (and THRESH, as passed)
    raw_volume,       \* self.raw_volume
    raw_ground_truth, \* self.raw_ground_truth (binarised)
    ground_truth,     \* self.ground_truth, in hundredths (.99 is 99)
    frag_mask,        \* self.frag_mask
    surf_pts,         \* self.surf_pts
    total_vects,      \* self.total_vects
    train_style,      \* self.train_style
    current_spot,     \* self.current_spot
    has_train_inds,   \* whether the attribute self.train_inds exists
    train_inds,       \* self.train_inds, a sequence of linear indices
    last,             \* what the last TrainVol call did and returned
    self_data,        \* Volume._data: its shape (z, y, x) and its contents
    vres,             \* what the last Volume call did and returned
    cache,            \* the files of feat_cache/, by path
    feat_prev,        \* the extract_for_vol call before the last one
    feat_last         \* the last extract_for_vol call: arguments and result

tvVars == <<pc, ctor_args, self_args, raw_volume, raw_ground_truth, ground_truth, frag_mask,
            surf_pts, total_vects, train_style, current_spot, has_train_inds,
            train_inds, last>>

volVars == <<self_data, vres>>
featVars == <<cache, feat_prev, feat_last>>

vars == <<tvVars, volVars, featVars>>

-----------------------------------------------------------------------------
(* Bounds of the inputs.                                                   *)

MaxRows == 10
MaxCols == 11
MaxDepth == 3
MaxNR == 2
MaxBatch == 2
MaxPool == 2

(* self.fragment_buffer, set in __init__.                                  *)
fragment_buffer == 4

-----------------------------------------------------------------------------
(* Helpers.                                                                *)

SetMax(S) == CHOOSE m \in S : \A x \in S : x <= m
SetMin(S) == CHOOSE m \in S : \A x \in S : m <= x

(* range(a, b) of Python.                                                  *)
PyRange(a, b) == a .. (b - 1)

(* A slice bound of Python for a sequence of length len: a negative bound  *)
(* counts from the end, and both are clamped into 0..len.                  *)
SliceBound(i, len) ==
    IF i < 0 THEN (IF i + len < 0 THEN 0 ELSE i + len)
             ELSE (IF i > len THEN len ELSE i)

(* arr[a:b] on an axis of length len selects the indices SliceIdx.         *)
SliceLo(a, len) == SliceBound(a, len)
SliceHi(a, b, len) ==
    IF SliceBound(b, len) < SliceBound(a, len) THEN SliceBound(a, len)
    ELSE SliceBound(b, len)
SliceLen(a, b, len) == SliceHi(a, b, len) - SliceLo(a, len)

Reverse(s) == [i \in 1..Len(s) |-> s[Len(s) + 1 - i]]

(* All orders np.random.shuffle can leave the sequence s in.               *)
Shuffles(s) ==
    { [i \in 1..Len(s) |-> s[p[i]]] :
        p \in { q \in [1..Len(s) -> 1..Len(s)] :
                    \A i, j \in 1..Len(s) : i # j => q[i] # q[j] } }

(* The members of the set S of integers in increasing order.               *)
RECURSIVE Ascending(_)
Ascending(S) ==
    IF S = {} THEN <<>>
    ELSE LET m == SetMin(S) IN <<m>> \o Ascending(S \ {m})

-----------------------------------------------------------------------------
(* TrainVol                                                                *)

Rows(vol) == vol.shape[1]
Cols(vol) == vol.shape[2]
Depth(vol) == vol.shape[3]

(* self.raw_ground_truth = np.where(self.raw_ground_truth > 0, 1, 0)       *)
Binarise(truth) == [p \in DOMAIN truth |-> IF truth[p] > 0 THEN 1 ELSE 0]

(* t_mean == 1 for the slice rgt[i-NR:i+NR, j-NR:j+NR] of 0/1 labels: the  *)
(* slice is not empty and every label in it is 1.                          *)
SliceMeanIsOne(rgt, R, C, i, j, nr) ==
    LET rs == SliceLo(i - nr, R) .. (SliceHi(i - nr, i + nr, R) - 1)
        cs == SliceLo(j - nr, C) .. (SliceHi(j - nr, j + nr, C) - 1)
    IN  /\ rs # {} /\ cs # {}
        /\ \A r \in rs, c \in cs : rgt[<<r, c>>] = 1

(* The loop of __init__ that builds self.ground_truth.                     *)
BuildGroundTruth(rgt, R, C, nr) ==
    [p \in (0..R-1) \X (0..C-1) |->
        IF /\ p[1] \in PyRange(nr, R - nr)
           /\ p[2] \in PyRange(nr, C - nr)
           /\ SliceMeanIsOne(rgt, R, C, p[1], p[2], nr)
        THEN 99 ELSE 0]

(* maxes = np.max(self.raw_volume, axis=2)                                 *)
Maxes(vol) ==
    [p \in (0..Rows(vol)-1) \X (0..Cols(vol)-1) |->
        SetMax({ vol.data[<<p[1], p[2], d>>] : d \in 0..Depth(vol)-1 })]

(* np.min(maxes[i-n:i+n+1, j-n:j+n+1])                                     *)
NeighMin(maxes, R, C, i, j, n) ==
    SetMin({ maxes[<<r, c>>] :
               r \in SliceLo(i - n, R) .. (SliceHi(i - n, i + n + 1, R) - 1),
               c \in SliceLo(j - n, C) .. (SliceHi(j - n, j + n + 1, C) - 1) })

(* np.where(vector > thresh)[0][0]                                         *)
FirstAbove(vol, i, j, thresh) ==
    SetMin({ d \in 0..Depth(vol)-1 : vol.data[<<i, j, d>>] > thresh })

(* The (i, j) the two loops of find_frag_surf_at_thresh visit.             *)
SurfLoopRows(R, n) == PyRange(n, R - n - 1)
SurfLoopCols(C, n) == PyRange(n, C - n - 1)

find_frag_surf_at_thresh(vol, thresh) ==
    LET R == Rows(vol)
        C == Cols(vol)
        n == fragment_buffer
        maxes == Maxes(vol)
        inside == { p \in SurfLoopRows(R, n) \X SurfLoopCols(C, n) :
                      NeighMin(maxes, R, C, p[1], p[2], n) > thresh }
    IN  [ frag_mask |-> [p \in (0..R-1) \X (0..C-1) |->
                            IF p \in inside THEN 1 ELSE 0],
          surf_pts  |-> [p \in (0..R-1) \X (0..C-1) |->
                            IF p \in inside
                            THEN FirstAbove(vol, p[1], p[2], thresh) ELSE 0] ]

(* The inputs: a volume whose depth profiles are steps crossing the        *)
(* threshold at index k (at index col % 2 when k is Mixed), except at      *)
(* `hole` where the profile stays at or below the threshold; values above  *)
(* the threshold form a ramp.                                              *)
NoCell == <<-1, -1>>
Mixed == -1

Voxel(r, c, d, k, hole) ==
    IF <<r, c>> = hole THEN d % 2
    ELSE IF d < (IF k = Mixed THEN c % 2 ELSE k) THEN (r + c) % 2
    ELSE 2 + ((2 * r + c + d) % 3)

StepVolume(R, C, D, k, hole) ==
    [ shape |-> <<R, C, D>>,
      data  |-> [p \in (0..R-1) \X (0..C-1) \X (0..D-1) |->
                    Voxel(p[1], p[2], p[3], k, hole)] ]

(* A raw annotation: ink (255) everywhere except at `blank`.               *)
InkTruth(R, C, blank) ==
    [p \in (0..R-1) \X (0..C-1) |-> IF p = blank THEN 0 ELSE 255]

MinDim == 2 * fragment_buffer + 2

Holes == { NoCell, <<4, 0>>, <<4, 1>>, <<9, 9>> }
Blanks == { NoCell, <<5, 5>>, <<5, 4>>, <<4, 4>> }

CtorArgs ==
    { [ volume |-> StepVolume(R, C, MaxDepth, k, hole),
        truth  |-> InkTruth(R, C, blank),
        CUT_IN |-> 1, CUT_BACK |-> 1, NR |-> nr, THRESH |-> 1 ] :
        R \in MinDim..MaxRows, C \in MinDim..MaxCols,
        k \in {Mixed} \cup 0..(MaxDepth - 1),
        hole \in Holes, blank \in Blanks, nr \in 1..MaxNR }

NoLast == [ op |-> "none" ]

(* The state of the parts a specification does not exercise.               *)
NoVolume == [ shape |-> <<0, 0, 0>>, kind |-> "none" ]
IdleVolume == self_data = NoVolume /\ vres = NoLast
IdleFeatures == cache = <<>> /\ feat_prev = NoLast /\ feat_last = NoLast
NoArgs == [ CUT_IN |-> 0, CUT_BACK |-> 0, NR |-> 0, THRESH |-> 0 ]
Scalars(a) == [ CUT_IN |-> a.CUT_IN, CUT_BACK |-> a.CUT_BACK, NR |-> a.NR,
                THRESH |-> a.THRESH ]

InitCtor ==
    /\ pc = "new"
    /\ ctor_args \in CtorArgs
    /\ self_args = NoArgs
    /\ raw_volume = <<>>
    /\ raw_ground_truth = <<>>
    /\ ground_truth = <<>>
    /\ frag_mask = <<>>
    /\ surf_pts = <<>>
    /\ total_vects = 0
    /\ train_style = ""
    /\ current_spot = 0
    /\ has_train_inds = FALSE
    /\ train_inds = <<>>
    /\ last = NoLast
    /\ IdleVolume
    /\ IdleFeatures

(* The fields TrainVol.__init__ leaves, given its arguments.               *)
Constructed(a) ==
    LET R == Rows(a.volume)
        C == Cols(a.volume)
        rgt == Binarise(a.truth)
        fs == find_frag_surf_at_thresh(a.volume, a.THRESH)
    IN  [ current_spot |-> 0,
          raw_volume |-> a.volume,
          raw_ground_truth |-> rgt,
          ground_truth |-> BuildGroundTruth(rgt, R, C, a.NR),
          train_style |-> "drop",
          total_vects |-> R * C,
          frag_mask |-> fs.frag_mask,
          surf_pts |-> fs.surf_pts ]

(* TrainVol.__init__                                                       *)
Construct ==
    /\ pc = "new"
    /\ LET o == Constructed(ctor_args)
       IN  /\ current_spot' = o.current_spot
           /\ raw_volume' = o.raw_volume
           /\ raw_ground_truth' = o.raw_ground_truth
           /\ ground_truth' = o.ground_truth
           /\ train_style' = o.train_style
           /\ total_vects' = o.total_vects
           /\ frag_mask' = o.frag_mask
           /\ surf_pts' = o.surf_pts
    /\ self_args' = Scalars(ctor_args)
    /\ pc' = "ready"
    /\ last' = [ op |-> "__init__" ]
    /\ UNCHANGED <<ctor_args, has_train_inds, train_inds>>
    /\ UNCHANGED <<volVars, featVars>>

NextCtor == Construct

SpecCtor == InitCtor /\ [][NextCtor]_vars

-----------------------------------------------------------------------------
(* The operations of a constructed TrainVol.                               *)

NR == self_args.NR
C_IN == self_args.CUT_IN
C_BACK == self_args.CUT_BACK
width == Cols(raw_volume)

(* self.flt_volume = self.raw_volume.astype(np.float32): the same values.  *)
flt_volume == raw_volume.data

ind_to_row(ind) == ind \div width
(* ind_to_col with the height taken for the width.                         *)
ind_to_col_height(ind) == ind % Rows(raw_volume)
ind_to_col(ind) == ind % width
coord_to_ind_height(row, col) == (row * Rows(raw_volume)) + col

coord_to_ind(row, col) == (row * width) + col

(* flt_volume[row, col-NR:col+NR, surf-BK:surf+IN] and its shape.          *)
CropShape(row, col) ==
    LET surf == surf_pts[<<row, col>>]
    IN  << SliceLen(col - NR, col + NR, width),
           SliceLen(surf - C_BACK, surf + C_IN, Depth(raw_volume)) >>

Crop(row, col) ==
    LET surf == surf_pts[<<row, col>>]
        c0 == SliceLo(col - NR, width)
        d0 == SliceLo(surf - C_BACK, Depth(raw_volume))
        shp == CropShape(row, col)
    IN  [a \in 1..shp[1] |-> [b \in 1..shp[2] |->
            flt_volume[<<row, c0 + a - 1, d0 + b - 1>>]]]

(* One row of np.zeros((_, width, height)).                                *)
ZeroWindow == [a \in 1..(2 * NR) |-> [b \in 1..(C_IN + C_BACK) |-> 0]]
WindowShape == << 2 * NR, C_IN + C_BACK >>

(* ind_pool of make_train_with_style, after ind_pool[np.nonzero(ind_pool)] *)
IndPool ==
    Ascending({ coord_to_ind(p[1], p[2]) :
                  p \in { q \in DOMAIN frag_mask : frag_mask[q] # 0 } } \ {0})

(* ind_pool[np.where(ind_pool % 2 > split)], split = shape[1] / 2          *)
RightOfSplit(ind) == 2 * (ind % 2) > width
LeftOfSplit(ind) == 2 * (ind % 2) < width

Styles == { "drop", "rhalf", "lhalf", "whole" }
DropTenths == { 6, 10 }
DefaultTenths == 6

(* The orders the selected pool can be left in by the style's branch.      *)
StylePools(style, tenths) ==
    LET ind_pool == IndPool
        n == Len(ind_pool)
    IN  IF style = "drop"
        THEN UNION { Shuffles(SubSeq(s, 1, (tenths * n) \div 10)) :
                        s \in Shuffles(ind_pool) }
        ELSE IF style = "rhalf"
        THEN Shuffles(SelectSeq(ind_pool, RightOfSplit))
        ELSE Shuffles(SelectSeq(ind_pool, LeftOfSplit))

make_train_with_style(style, tenths) ==
    /\ pc = "ready"
    /\ IF style \in { "drop", "rhalf", "lhalf" }
       THEN /\ train_style' = style
            /\ train_inds' \in StylePools(style, tenths)
            /\ has_train_inds' = TRUE
            /\ last' = [ op |-> "make_train_with_style", style |-> style,
                         tenths |-> tenths, ind_pool |-> IndPool,
                         err |-> "none" ]
       ELSE \* train_inds is not bound at line 144
            /\ UNCHANGED <<train_style, train_inds, has_train_inds>>
            /\ last' = [ op |-> "make_train_with_style", style |-> style,
                         tenths |-> tenths, ind_pool |-> IndPool,
                         err |-> "UnboundLocalError" ]
    /\ UNCHANGED <<pc, ctor_args, self_args, raw_volume, raw_ground_truth, ground_truth,
                   frag_mask, surf_pts, total_vects, current_spot>>
    /\ UNCHANGED <<volVars, featVars>>

(* train_inds[start:end]                                                   *)
BatchInds(pool, start, end) ==
    SubSeq(pool, SliceLo(start, Len(pool)) + 1, SliceHi(start, end, Len(pool)))

(* end = start + batch_size, the value the cursor takes after the call     *)
BatchEndAtStart(start, batch_size) == start

BatchEnd(start, batch_size) == start + batch_size

next_batch(batch_size) ==
    /\ pc = "ready"
    /\ LET wrap == current_spot + batch_size > total_vects
           start == IF wrap THEN 0 ELSE current_spot
           end == BatchEnd(start, batch_size)
       IN  IF ~has_train_inds
           THEN \* self.train_inds does not exist: line 53 or line 58 raises
                /\ current_spot' = start
                /\ train_inds' = train_inds
                /\ last' = [ op |-> "next_batch", batch_size |-> batch_size,
                             err |-> "AttributeError" ]
           ELSE \E pool \in (IF wrap THEN Shuffles(train_inds) ELSE {train_inds}) :
                LET batch_inds == BatchInds(pool, start, end)
                    row(c) == ind_to_row(batch_inds[c])
                    col(c) == ind_to_col(batch_inds[c])
                    put(c) == /\ c <= Len(batch_inds)
                              /\ CropShape(row(c), col(c)) = WindowShape
                IN  \* np.random.randint(10) % 2 == 0, drawn for the crops kept
                    \E flip \in [{ c \in 1..batch_size : put(c) } -> BOOLEAN] :
                    /\ train_inds' = pool
                    /\ current_spot' = end
                    /\ last' =
                         [ op |-> "next_batch", batch_size |-> batch_size,
                           err |-> "none", wrapped |-> wrap,
                           start |-> start, end |-> end,
                           batch_inds |-> batch_inds,
                           x |-> [c \in 1..batch_size |->
                                    IF put(c)
                                    THEN IF flip[c]
                                         THEN Reverse(Crop(row(c), col(c)))
                                         ELSE Crop(row(c), col(c))
                                    ELSE ZeroWindow],
                           y |-> [c \in 1..batch_size |->
                                    IF put(c)
                                    THEN << ground_truth[<<row(c), col(c)>>],
                                            100 - ground_truth[<<row(c), col(c)>>] >>
                                    ELSE <<0, 0>>] ]
    /\ UNCHANGED <<pc, ctor_args, self_args, raw_volume, raw_ground_truth, ground_truth,
                   frag_mask, surf_pts, total_vects, train_style, has_train_inds>>
    /\ UNCHANGED <<volVars, featVars>>

get_predict_batch ==
    /\ pc = "ready"
    /\ last' = [ op |-> "get_predict_batch", err |-> "none",
                 x |-> [i \in 1..total_vects |->
                          LET ind == i - 1
                              row == ind_to_row(ind)
                              col == ind_to_col(ind)
                          IN  IF CropShape(row, col) = WindowShape
                              THEN Crop(row, col) ELSE ZeroWindow] ]
    /\ UNCHANGED <<pc, ctor_args, self_args, raw_volume, raw_ground_truth, ground_truth,
                   frag_mask, surf_pts, total_vects, train_style, current_spot,
                   has_train_inds, train_inds>>
    /\ UNCHANGED <<volVars, featVars>>

(* The constructed objects the operations are run on: the narrowest        *)
(* volumes with masked columns on both sides of width / 2, and at most     *)
(* MaxPool masked points.                                                  *)
TrainCols == MinDim + 3

TrainArgs ==
    { a \in { [ volume |-> StepVolume(MinDim, TrainCols, MaxDepth, Mixed, hole),
                truth  |-> InkTruth(MinDim, TrainCols, <<4, 6>>),
                CUT_IN |-> 1, CUT_BACK |-> 1, NR |-> 1, THRESH |-> 1 ] :
                hole \in { <<4, 0>>, <<4, 1>>, <<4, 2>> } } :
        LET m == find_frag_surf_at_thresh(a.volume, a.THRESH).frag_mask
        IN  Cardinality({ p \in DOMAIN m : m[p] # 0 }) <= MaxPool }

InitTrain ==
    /\ pc = "ready"
    /\ \E a \in TrainArgs :
       LET o == Constructed(a)
       IN  /\ ctor_args = Scalars(a)
           /\ self_args = Scalars(a)
           /\ current_spot = o.current_spot
           /\ raw_volume = o.raw_volume
           /\ raw_ground_truth = o.raw_ground_truth
           /\ ground_truth = o.ground_truth
           /\ train_style = o.train_style
           /\ total_vects = o.total_vects
           /\ frag_mask = o.frag_mask
           /\ surf_pts = o.surf_pts
    /\ has_train_inds = FALSE
    /\ train_inds = <<>>
    /\ last = [ op |-> "__init__" ]
    /\ IdleVolume
    /\ IdleFeatures

NextTrain ==
    \/ \E style \in Styles, tenths \in DropTenths :
          /\ style # "drop" => tenths = DefaultTenths
          /\ make_train_with_style(style, tenths)
    \/ \E batch_size \in 1..MaxBatch : next_batch(batch_size)
    \/ get_predict_batch

SpecTrain == InitTrain /\ [][NextTrain]_vars

(* The training loop: a caller that keeps asking for batches. next_batch   *)
(* is enabled in every state of a constructed TrainVol, so weak fairness   *)
(* states exactly that the run of next_batch calls is infinite.            *)
SpecTrainLoop ==
    /\ InitTrain
    /\ [][NextTrain]_vars
    /\ WF_vars(\E batch_size \in 1..MaxBatch : next_batch(batch_size))

-----------------------------------------------------------------------------
(* Volume (inkid/data/Volume.py). Coordinates are fixed-point numbers with *)
(* denominator Q, a power of two, so that the float arithmetic of the code *)
(* is exact; an interpolated value is kept multiplied by Q^3.              *)

Q == 2
MaxCoord == 2

(* int(x) and math.modf(x) for x = xq / Q: truncation towards zero, and    *)
(* the fractional part with the sign of x (as a numerator over Q).         *)
Trunc(xq) == IF xq >= 0 THEN xq \div Q ELSE -((-xq) \div Q)
Frac(xq) == xq - Q * Trunc(xq)

(* self._data[z, y, x] for volumes that are uniform or a ramp.             *)
DataAt(v, z, y, x) ==
    IF v.kind = "uniform" THEN 7 ELSE 1 + x + 3 * y + 5 * z

(* An integer index of numpy on an axis of length len.                     *)
IndexOK(i, len) == -len <= i /\ i < len
IndexAt(i, len) == IF i < 0 THEN i + len ELSE i

IndexError == [ ok |-> FALSE, val |-> 0 ]

IntensityAt(v, xq, yq, zq) ==
    LET x == Trunc(xq)
        y == Trunc(yq)
        z == Trunc(zq)
    IN  IF /\ IndexOK(z, v.shape[1])
           /\ IndexOK(y, v.shape[2])
           /\ IndexOK(x, v.shape[3])
        THEN [ ok |-> TRUE,
               val |-> DataAt(v, IndexAt(z, v.shape[1]), IndexAt(y, v.shape[2]),
                              IndexAt(x, v.shape[3])) ]
        ELSE IndexError

InterpolateAt(v, xq, yq, zq) ==
    LET dx == Frac(xq)
        dy == Frac(yq)
        dz == Frac(zq)
        x0 == Q * Trunc(xq)
        y0 == Q * Trunc(yq)
        z0 == Q * Trunc(zq)
        x1 == x0 + Q
        y1 == y0 + Q
        z1 == z0 + Q
        I(a, b, c) == IntensityAt(v, a, b, c)
        c00 == I(x0, y0, z0).val * (Q - dx) + I(x1, y0, z0).val * dx
        c10 == I(x0, y1, z0).val * (Q - dx) + I(x1, y0, z0).val * dx
        c01 == I(x0, y0, z1).val * (Q - dx) + I(x1, y0, z1).val * dx
        c11 == I(x0, y1, z1).val * (Q - dx) + I(x1, y1, z1).val * dx
        c0 == c00 * (Q - dy) + c10 * dy
        c1 == c01 * (Q - dy) + c11 * dy
    IN  IF /\ I(x0, y0, z0).ok /\ I(x1, y0, z0).ok /\ I(x0, y1, z0).ok
           /\ I(x0, y0, z1).ok /\ I(x1, y0, z1).ok /\ I(x0, y1, z1).ok
           /\ I(x1, y1, z1).ok
        THEN [ ok |-> TRUE, val |-> c0 * (Q - dz) + c1 * dz ]
        ELSE IndexError

(* The block the axis-aligned code of get_subvolume cuts, by half-extent.  *)
HalfZ == 48
HalfY == 48
HalfX == 24
FixedShape == << 2 * HalfZ, 2 * HalfY, 2 * HalfX >>

(* A block is a view of _data starting at lo, or np.zeros of its shape.    *)
GetSubvolume(v, center_xyz, shape_zyx) ==
    LET x == center_xyz[1]
        y == center_xyz[2]
        z == center_xyz[3]
        Z == v.shape[1]
        Y == v.shape[2]
        X == v.shape[3]
        cut == << SliceLen(z - HalfZ, z + HalfZ, Z),
                  SliceLen(y - HalfY, y + HalfY, Y),
                  SliceLen(x - HalfX, x + HalfX, X) >>
    IN  IF cut # FixedShape
        THEN [ zeros |-> TRUE, shape |-> FixedShape, lo |-> <<0, 0, 0>> ]
        ELSE [ zeros |-> FALSE, shape |-> cut,
               lo |-> << SliceLo(z - HalfZ, Z), SliceLo(y - HalfY, Y),
                         SliceLo(x - HalfX, X) >> ]

VolumeShapes ==
    { <<2, 2, 2>>, <<MaxCoord + 1, MaxCoord + 1, MaxCoord + 1>>,
      FixedShape, << 2 * HalfZ + 4, 2 * HalfY + 4, 2 * HalfX + 2 >> }
Volumes == { [ shape |-> sh, kind |-> k ] :
               sh \in VolumeShapes, k \in { "uniform", "ramp" } }

Coords == 0..(Q * MaxCoord)
Centers == { << x, y, z >> : x \in { 3, HalfX, HalfX + 1, HalfX + 3 },
                             y \in { HalfY, HalfY + 2 },
                             z \in { HalfZ, HalfZ + 5 } }
RequestedShapes == { FixedShape, <<48, 48, 48>> }

InitVolume ==
    /\ self_data \in Volumes
    /\ vres = NoLast
    /\ pc = "idle"
    /\ ctor_args = NoArgs
    /\ self_args = NoArgs
    /\ raw_volume = <<>>
    /\ raw_ground_truth = <<>>
    /\ ground_truth = <<>>
    /\ frag_mask = <<>>
    /\ surf_pts = <<>>
    /\ total_vects = 0
    /\ train_style = ""
    /\ current_spot = 0
    /\ has_train_inds = FALSE
    /\ train_inds = <<>>
    /\ last = NoLast
    /\ IdleFeatures

intensity_at(x, y, z) ==
    /\ self_data # NoVolume
    /\ vres' = [ op |-> "intensity_at", at |-> <<x, y, z>>,
                 res |-> IntensityAt(self_data, x, y, z) ]
    /\ UNCHANGED <<self_data, tvVars, featVars>>

interpolate_at(x, y, z) ==
    /\ self_data # NoVolume
    /\ vres' = [ op |-> "interpolate_at", at |-> <<x, y, z>>,
                 res |-> InterpolateAt(self_data, x, y, z) ]
    /\ UNCHANGED <<self_data, tvVars, featVars>>

get_subvolume(center_xyz, shape_zyx) ==
    /\ self_data # NoVolume
    /\ vres' = [ op |-> "get_subvolume", center |-> center_xyz,
                 requested |-> shape_zyx,
                 res |-> GetSubvolume(self_data, center_xyz, shape_zyx) ]
    /\ UNCHANGED <<self_data, tvVars, featVars>>

NextVolume ==
    \/ \E x \in Coords, y \in Coords, z \in Coords : intensity_at(x, y, z)
    \/ \E x \in Coords, y \in Coords, z \in Coords : interpolate_at(x, y, z)
    \/ \E c \in Centers, sh \in RequestedShapes : get_subvolume(c, sh)

SpecVolume == InitVolume /\ [][NextVolume]_vars

-----------------------------------------------------------------------------
(* extract_for_vol (features.py) and the files of feat_cache/.             *)

MaxCutIn == 2
MaxThresh == 2
FeatDim == 3

(* str(n) of an integer, as its characters.                                *)
Digit(d) == <<"0", "1", "2", "3", "4", "5", "6", "7", "8", "9">>[d + 1]
RECURSIVE Digits(_)
Digits(n) == IF n < 10 THEN << Digit(n) >>
             ELSE Digits(n \div 10) \o << Digit(n % 10) >>
Str(n) == IF n < 0 THEN <<"-">> \o Digits(-n) ELSE Digits(n)

(* "feat_cache/features-in{}-back{}-neigh{}".format(...), as characters,   *)
(* without the directory.                                                  *)
FeaturesFilename(cut_in, cut_back, neigh) ==
    <<"f", "e", "a", "t", "u", "r", "e", "s", "-", "i", "n">> \o Str(cut_in)
      \o <<"-", "b", "a", "c", "k">> \o Str(cut_back)
      \o <<"-", "n", "e", "i", "g", "h">> \o Str(neigh)

Npy == <<".", "n", "p", "y">>
EndsWithNpy(name) ==
    Len(name) >= 4 /\ SubSeq(name, Len(name) - 3, Len(name)) = Npy

(* The file np.load(features_filename + ".npy") reads, and the file        *)
(* np.save(features_filename, _) writes: np.save appends ".npy" to a name  *)
(* that does not end with it.                                              *)
LoadPath(name) == name \o Npy
SavePath(name) == IF EndsWithNpy(name) THEN name ELSE name \o Npy

RECURSIVE Gcd(_, _)
Gcd(a, b) == IF b = 0 THEN a ELSE Gcd(b, a % b)
Abs(a) == IF a < 0 THEN -a ELSE a
RECURSIVE GcdOf(_)
GcdOf(S) == IF S = {} THEN 0
            ELSE LET x == CHOOSE y \in S : TRUE
                 IN  Gcd(Abs(x), GcdOf(S \ {x}))

(* preprocessing.normalize(m): every row of the map divided by its L2      *)
(* norm, a row of zeros left as it is. A normalised row of integers is     *)
(* kept as the shortest integer vector of its direction: two rows          *)
(* normalise to the same floats exactly when these agree.                  *)
Normalize(m, R, C) ==
    [p \in (0..R-1) \X (0..C-1) |->
        LET g == GcdOf({ m[<<p[1], c>>] : c \in 0..C-1 })
        IN  IF g = 0 THEN 0 ELSE m[p] \div g]

(* volume[i, j][srf:cut]: the depth indices of the window of (i, j).       *)
WindowIdx(a, i, j) ==
    LET D == Depth(a.volume)
        s0 == a.surf_pts[<<i, j>>] - a.CUT_BACK
        srf == IF s0 < 0 THEN 0 ELSE s0
        cut == srf + a.CUT_IN
    IN  SliceLo(srf, D) .. (SliceHi(srf, cut, D) - 1)

RECURSIVE SumOver(_, _)
SumOver(f, S) == IF S = {} THEN 0
                 ELSE LET x == CHOOSE y \in S : TRUE
                      IN  f[x] + SumOver(f, S \ {x})

(* The voxels of volume[i-NR:i+NR+1, j-NR:j+NR+1, srf:cut].                *)
NeighIdx(a, i, j) ==
    LET R == Rows(a.volume)
        C == Cols(a.volume)
        nr == a.NEIGH_RADIUS
    IN  { <<r, c, d>> :
            r \in SliceLo(i - nr, R) .. (SliceHi(i - nr, i + nr + 1, R) - 1),
            c \in SliceLo(j - nr, C) .. (SliceHi(j - nr, j + nr + 1, C) - 1),
            d \in WindowIdx(a, i, j) }

(* The feature image a miss computes, indexed [row, col][channel]. The     *)
(* channels kept are the integer-valued ones (sum, depth, min, max of the  *)
(* window, sum and depth of the neighbourhood); avg and std are functions  *)
(* of the same windows and are left out of the value.                      *)
ComputeFeatures(a) ==
    LET R == Rows(a.volume)
        C == Cols(a.volume)
        nr == a.NEIGH_RADIUS
        pts == (0..R-1) \X (0..C-1)
        vox(i, j) == { <<i, j, d>> : d \in WindowIdx(a, i, j) }
        vals(i, j) == { a.volume.data[q] : q \in vox(i, j) }
        inner(p) == /\ p[1] \in PyRange(nr, R - nr)
                    /\ p[2] \in PyRange(nr, C - nr)
        sum_vals == [p \in pts |-> SumOver(a.volume.data, vox(p[1], p[2]))]
        depth_vals == [p \in pts |->
            Cardinality({ q \in vox(p[1], p[2]) :
                a.volume.data[q] > a.THRESH /\ a.volume.data[q] # 0 })]
        min_vals == [p \in pts |-> SetMin(vals(p[1], p[2]))]
        max_vals == [p \in pts |-> SetMax(vals(p[1], p[2]))]
        sum_neigh == [p \in pts |->
            IF inner(p) THEN SumOver(a.volume.data, NeighIdx(a, p[1], p[2]))
            ELSE 0]
        depth_neigh == [p \in pts |->
            IF inner(p)
            THEN Cardinality({ q \in NeighIdx(a, p[1], p[2]) :
                    a.volume.data[q] < a.THRESH /\ a.volume.data[q] # 0 })
            ELSE 0]
        n1 == Normalize(sum_vals, R, C)
        n2 == Normalize(depth_vals, R, C)
        n3 == Normalize(min_vals, R, C)
        n4 == Normalize(max_vals, R, C)
        n5 == Normalize(sum_neigh, R, C)
        n6 == Normalize(depth_neigh, R, C)
    IN  [p \in pts |-> << n1[p], n2[p], n3[p], n4[p], n5[p], n6[p] >>]

(* The inputs: two small volumes and a surface map.                        *)
FeatVolume(g) ==
    [ shape |-> <<FeatDim, FeatDim, FeatDim>>,
      data  |-> [p \in (0..FeatDim-1) \X (0..FeatDim-1) \X (0..FeatDim-1) |->
                    (g + p[1] + 2 * p[2] + p[3]) % 4] ]
FeatSurf == [p \in (0..FeatDim-1) \X (0..FeatDim-1) |-> (p[1] + p[2]) % 2]

FeatArgs ==
    { [ volume |-> FeatVolume(g), surf_pts |-> FeatSurf, CUT_IN |-> ci,
        CUT_BACK |-> 1, NEIGH_RADIUS |-> 1, THRESH |-> th ] :
        g \in 0..1, ci \in 1..MaxCutIn, th \in 1..MaxThresh }

(* What a miss computes for each of the inputs, evaluated once.            *)
FeatureTable == [a \in FeatArgs |-> ComputeFeatures(a)]

CachePaths ==
    { LoadPath(FeaturesFilename(a.CUT_IN, a.CUT_BACK, a.NEIGH_RADIUS)) :
        a \in FeatArgs }

Absent == [ kind |-> "absent" ]
Corrupt == [ kind |-> "corrupt" ]

InitFeat ==
    /\ cache = [p \in CachePaths |-> Absent]
    /\ feat_prev = NoLast
    /\ feat_last = NoLast
    /\ pc = "idle"
    /\ ctor_args = NoArgs
    /\ self_args = NoArgs
    /\ raw_volume = <<>>
    /\ raw_ground_truth = <<>>
    /\ ground_truth = <<>>
    /\ frag_mask = <<>>
    /\ surf_pts = <<>>
    /\ total_vects = 0
    /\ train_style = ""
    /\ current_spot = 0
    /\ has_train_inds = FALSE
    /\ train_inds = <<>>
    /\ last = NoLast
    /\ IdleVolume

extract_for_vol(a) ==
    LET features_filename ==
            FeaturesFilename(a.CUT_IN, a.CUT_BACK, a.NEIGH_RADIUS)
        loaded == cache[LoadPath(features_filename)]
    IN  /\ cache # <<>>
        /\ IF loaded.kind = "array"
           THEN /\ feat_last' = [ op |-> "extract_for_vol", args |-> a,
                                  hit |-> TRUE, out |-> loaded.data ]
                /\ cache' = cache
           ELSE LET features == FeatureTable[a]
                IN  /\ cache' = [cache EXCEPT ![SavePath(features_filename)] =
                                    [ kind |-> "array", data |-> features ]]
                    /\ feat_last' = [ op |-> "extract_for_vol", args |-> a,
                                      hit |-> FALSE, out |-> features ]
        /\ feat_prev' = feat_last
        /\ UNCHANGED <<tvVars, volVars>>

(* The cache artifact is deleted, or damaged, by its owner.                *)
delete_cache(path) ==
    /\ cache # <<>>
    /\ cache[path].kind # "absent"
    /\ cache' = [cache EXCEPT ![path] = Absent]
    /\ UNCHANGED <<feat_prev, feat_last, tvVars, volVars>>

damage_cache(path) ==
    /\ cache # <<>>
    /\ cache[path].kind = "array"
    /\ cache' = [cache EXCEPT ![path] = Corrupt]
    /\ UNCHANGED <<feat_prev, feat_last, tvVars, volVars>>

NextFeat ==
    \/ \E a \in FeatArgs : extract_for_vol(a)
    \/ \E path \in CachePaths : delete_cache(path)
    \/ \E path \in CachePaths : damage_cache(path)

SpecFeat == InitFeat /\ [][NextFeat]_vars

-----------------------------------------------------------------------------
(* The statements checked about TrainVol.                                  *)

Range(s) == { s[i] : i \in 1..Len(s) }

(* The linear indices of the points inside the fragment mask.              *)
MaskedInds ==
    { (p[1] * Cols(raw_volume)) + p[2] :
        p \in { q \in DOMAIN frag_mask : frag_mask[q] = 1 } }

(* Whether the window of (row, col) lies inside the volume, and its values *)
(* read voxel by voxel.                                                    *)
InBounds(row, col) ==
    LET surf == surf_pts[<<row, col>>]
    IN  /\ col - self_args.NR >= 0
        /\ col + self_args.NR <= Cols(raw_volume)
        /\ surf - self_args.CUT_BACK >= 0
        /\ surf + self_args.CUT_IN <= Depth(raw_volume)

ExactCrop(row, col) ==
    LET surf == surf_pts[<<row, col>>]
    IN  [a \in 1..(2 * self_args.NR) |->
          [b \in 1..(self_args.CUT_IN + self_args.CUT_BACK) |->
             raw_volume.data[<<row, col - self_args.NR + a - 1,
                               surf - self_args.CUT_BACK + b - 1>>]]]

AllZero(w) == \A a \in DOMAIN w : \A b \in DOMAIN w[a] : w[a][b] = 0

(* C1: every next_batch(batch_size) with batch_size <= pool size draws the *)
(* slice train_inds[start:end] fully inside the pool, with exactly         *)
(* batch_size indices: the cursor wraps when it would pass the pool's end. *)
C1_BatchInsidePool ==
    (/\ last.op = "next_batch"
     /\ last.err = "none"
     /\ last.batch_size <= Len(train_inds))
    => /\ last.end <= Len(train_inds)
       /\ Len(last.batch_inds) = last.batch_size

(* What get_predict_batch returned: rows*cols windows, entry ind being the *)
(* window of (ind div cols, ind mod cols): the exact crop when it lies in  *)
(* the volume and an all-zero window otherwise.                            *)
PredictCoversAll ==
    last.op = "get_predict_batch"
    => /\ Len(last.x) = Rows(raw_volume) * Cols(raw_volume)
       /\ \A ind \in 0..(Rows(raw_volume) * Cols(raw_volume) - 1) :
            LET row == ind \div Cols(raw_volume)
                col == ind % Cols(raw_volume)
            IN  IF InBounds(row, col)
                THEN last.x[ind + 1] = ExactCrop(row, col)
                ELSE /\ Len(last.x[ind + 1]) = 2 * self_args.NR
                     /\ \A a \in 1..(2 * self_args.NR) :
                          Len(last.x[ind + 1][a])
                             = self_args.CUT_IN + self_args.CUT_BACK
                     /\ AllZero(last.x[ind + 1])

(* C2: get_predict_batch returns rows*cols examples, entry ind the window  *)
(* of the point with row-major linear index ind, and leaves the cursor and *)
(* the active index pool as they were.                                     *)
C2_PredictBatch ==
    [][(last'.op = "get_predict_batch" /\ get_predict_batch) =>
         /\ PredictCoversAll'
         /\ current_spot' = current_spot
         /\ train_inds' = train_inds
         /\ has_train_inds' = has_train_inds]_vars

(* C2 witness: a prediction pass made with a pool selected and the cursor  *)
(* advanced, returning exact crops for some points and zeros for others.   *)
C2_Witness ==
    /\ last.op = "get_predict_batch"
    /\ has_train_inds
    /\ Len(train_inds) > 0
    /\ current_spot > 0
    /\ \E i \in 1..Len(last.x) : ~AllZero(last.x[i])
    /\ \E i \in 1..Len(last.x) : AllZero(last.x[i])

(* C3: with n = fragment_buffer, at every (row, col) with n <= row <=      *)
(* rows-1-n and n <= col <= cols-1-n whose (2n+1)x(2n+1) neighbourhood has *)
(* every depth-maximum above the threshold the mask is 1 and the surface   *)
(* index is the first depth index above the threshold; at every other      *)
(* point the mask and the surface index are 0.                             *)
C3_MaskAndSurface ==
    pc = "ready" =>
    \A p \in DOMAIN frag_mask :
        LET n == fragment_buffer
            R == Rows(raw_volume)
            C == Cols(raw_volume)
            above(r, c) == { d \in 0..(Depth(raw_volume) - 1) :
                               raw_volume.data[<<r, c, d>>] > self_args.THRESH }
            margin == /\ n <= p[1] /\ p[1] <= R - 1 - n
                      /\ n <= p[2] /\ p[2] <= C - 1 - n
        IN  IF margin /\ \A r \in (p[1] - n)..(p[1] + n),
                            c \in (p[2] - n)..(p[2] + n) : above(r, c) # {}
            THEN /\ frag_mask[p] = 1
                 /\ surf_pts[p] \in above(p[1], p[2])
                 /\ \A d \in above(p[1], p[2]) : surf_pts[p] <= d
            ELSE /\ frag_mask[p] = 0
                 /\ surf_pts[p] = 0

(* C7: ground_truth[i, j] is .99 only if every annotation at (i', j') with *)
(* |i' - i| <= NR and |j' - j| <= NR is ink-positive, and 0 otherwise.     *)
C7_LabelsConservative ==
    pc = "ready" =>
    \A p \in DOMAIN ground_truth :
        LET nr == self_args.NR
            R == Rows(raw_volume)
            C == Cols(raw_volume)
            whole == /\ p[1] - nr >= 0 /\ p[1] + nr <= R - 1
                     /\ p[2] - nr >= 0 /\ p[2] + nr <= C - 1
                     /\ \A i \in (p[1] - nr)..(p[1] + nr),
                           j \in (p[2] - nr)..(p[2] + nr) :
                           raw_ground_truth[<<i, j>>] = 1
        IN  /\ ground_truth[p] \in {0, 99}
            /\ ground_truth[p] = 99 => whole

(* C8: make_train_with_style installs the shuffled subset as the pool and  *)
(* resets the cursor to 0.                                                 *)
C8_CursorReset ==
    (last.op = "make_train_with_style" /\ last.err = "none")
    => /\ has_train_inds
       /\ Range(train_inds) \subseteq MaskedInds
       /\ current_spot = 0

(* C9: after 'rhalf' the pool holds only masked indices whose column is    *)
(* right of width/2, after 'lhalf' only those left of it, and when both    *)
(* halves hold masked points neither pool is empty and the two are         *)
(* disjoint and cover them.                                                *)
C9_HalfPools ==
    (/\ last.op = "make_train_with_style"
     /\ last.err = "none"
     /\ last.style \in { "rhalf", "lhalf" })
    => LET C == Cols(raw_volume)
           right == { ind \in MaskedInds : 2 * (ind % C) > C }
           left == { ind \in MaskedInds : 2 * (ind % C) < C }
           mine == IF last.style = "rhalf" THEN right ELSE left
       IN  /\ Range(train_inds) \subseteq mine
           /\ (right # {} /\ left # {}) => Range(train_inds) = mine

(* C10: every one of the batch_size pairs next_batch returns is the window *)
(* and label of one pool index: the label is [p, 1-p], and the window is   *)
(* the exact crop, possibly flipped, or all zero only when the crop is out *)
(* of bounds. Stated of the calls whose slice of the pool is complete, so  *)
(* that a short slice (C1) is not what decides it.                         *)
C10_EveryPairLabelled ==
    (/\ last.op = "next_batch"
     /\ last.err = "none"
     /\ Len(last.batch_inds) = last.batch_size)
    => /\ Len(last.x) = last.batch_size
       /\ Len(last.y) = last.batch_size
       /\ \A c \in 1..last.batch_size :
            \E ind \in Range(train_inds) :
              LET row == ind \div Cols(raw_volume)
                  col == ind % Cols(raw_volume)
                  p == ground_truth[<<row, col>>]
              IN  /\ last.y[c] = << p, 100 - p >>
                  /\ IF InBounds(row, col)
                     THEN \/ last.x[c] = ExactCrop(row, col)
                          \/ last.x[c] = Reverse(ExactCrop(row, col))
                     ELSE AllZero(last.x[c])

-----------------------------------------------------------------------------
(* The statements checked about Volume.                                    *)

(* The trilinear interpolation of the 8 lattice corners of (x, y, z), over *)
(* Q^3: each corner weighted by the product of its three weights.          *)
Trilinear(v, xq, yq, zq) ==
    LET x0 == Trunc(xq)
        y0 == Trunc(yq)
        z0 == Trunc(zq)
        w(d, bit) == IF bit = 1 THEN d ELSE Q - d
        term(i, j, k) == DataAt(v, z0 + k, y0 + j, x0 + i)
                           * w(Frac(xq), i) * w(Frac(yq), j) * w(Frac(zq), k)
    IN  term(0, 0, 0) + term(1, 0, 0) + term(0, 1, 0) + term(1, 1, 0)
          + term(0, 0, 1) + term(1, 0, 1) + term(0, 1, 1) + term(1, 1, 1)

CornersExist(v, xq, yq, zq) ==
    /\ xq >= 0 /\ yq >= 0 /\ zq >= 0
    /\ Trunc(zq) + 1 < v.shape[1]
    /\ Trunc(yq) + 1 < v.shape[2]
    /\ Trunc(xq) + 1 < v.shape[3]

(* C4: interpolate_at(x, y, z) is the trilinear interpolation of the 8     *)
(* corners, at every non-negative point whose 8 corners exist.             *)
C4_Trilinear ==
    (/\ vres.op = "interpolate_at"
     /\ CornersExist(self_data, vres.at[1], vres.at[2], vres.at[3]))
    => /\ vres.res.ok
       /\ vres.res.val = Trilinear(self_data, vres.at[1], vres.at[2], vres.at[3])

(* C5: get_subvolume returns a block of the requested shape: the direct    *)
(* slice of that shape around the center when it fits in the volume, and   *)
(* an all-zero block when it does not.                                     *)
C5_RequestedShape ==
    vres.op = "get_subvolume"
    => LET half == [a \in 1..3 |-> vres.requested[a] \div 2]
           ctr == << vres.center[3], vres.center[2], vres.center[1] >>
           fits == \A a \in 1..3 : /\ ctr[a] - half[a] >= 0
                                   /\ ctr[a] - half[a] + vres.requested[a]
                                        <= self_data.shape[a]
       IN  /\ vres.res.shape = vres.requested
           /\ IF fits
              THEN /\ ~vres.res.zeros
                   /\ vres.res.lo = [a \in 1..3 |-> ctr[a] - half[a]]
              ELSE vres.res.zeros

-----------------------------------------------------------------------------
(* The statements checked about extract_for_vol.                           *)

(* A hit returns the stored image and leaves the cache alone; a miss       *)
(* stores what it returns under the key of its parameters.                 *)
CacheReadWrite ==
    [][\A a \in FeatArgs : extract_for_vol(a) =>
         LET path == LoadPath(FeaturesFilename(a.CUT_IN, a.CUT_BACK,
                                               a.NEIGH_RADIUS))
         IN  IF cache[path].kind = "array"
             THEN cache' = cache /\ feat_last'.out = cache[path].data
             ELSE /\ cache'[path] = [ kind |-> "array", data |-> feat_last'.out ]
                  /\ \A q \in CachePaths \ {path} : cache'[q] = cache[q]]_vars

(* C6: two successive calls with identical parameters on the same inputs   *)
(* return identical outputs, whether or not the cache entry was deleted    *)
(* between them.                                                           *)
C6_SameOutputs ==
    (/\ feat_prev.op = "extract_for_vol"
     /\ feat_last.op = "extract_for_vol"
     /\ feat_last.args = feat_prev.args)
    => feat_last.out = feat_prev.out

-----------------------------------------------------------------------------
(* C11: once a training policy has been selected, no next_batch call       *)
(* raises, whether or not batch_size divides the pool size, and in every   *)
(* infinite run of next_batch calls a call eventually wraps the cursor to  *)
(* 0 and reshuffles the pool.                                              *)
PolicySelected == has_train_inds

NextBatchRaised == last.op = "next_batch" /\ last.err # "none"

Reshuffled ==
    /\ last.op = "next_batch"
    /\ last.err = "none"
    /\ last.wrapped
    /\ last.start = 0
    /\ current_spot = last.batch_size

C11_NeverRaisesAndWraps ==
    /\ [](PolicySelected => ~NextBatchRaised)
    /\ (PolicySelected ~> Reshuffled)

C11_Witness ==
    /\ PolicySelected
    /\ Reshuffled
    /\ Len(train_inds) > 0
    /\ Len(train_inds) % last.batch_size # 0

(* C12: the index pool built by make_train_with_style holds the row-major  *)
(* index row*cols+col of every point with frag_mask = 1, each once and     *)
(* nothing else; after a 'drop' call the active pool holds int(dropout*n)  *)
(* pairwise distinct members of it, n being the number of masked points.   *)
MaskedPoints == { q \in DOMAIN frag_mask : frag_mask[q] = 1 }

Distinct(s) == Cardinality(Range(s)) = Len(s)

C12_PoolIsMask ==
    (last.op = "make_train_with_style" /\ last.err = "none")
    => /\ Range(last.ind_pool) = MaskedInds
       /\ Len(last.ind_pool) = Cardinality(MaskedPoints)
       /\ Distinct(last.ind_pool)
       /\ last.style = "drop"
            => /\ Len(train_inds) =
                    (last.tenths * Cardinality(MaskedPoints)) \div 10
               /\ Distinct(train_inds)
               /\ Range(train_inds) \subseteq MaskedInds

C12_Witness ==
    /\ last.op = "make_train_with_style"
    /\ last.err = "none"
    /\ last.style = "drop"
    /\ last.tenths = DefaultTenths
    /\ Cardinality(MaskedPoints) = MaxPool
    /\ Len(train_inds) > 0
    /\ Len(train_inds) < Len(last.ind_pool)

====
